---- MODULE Spec2Model ----
(***************************************************************************)
(* Model of the daisy core: the Task objective tracker (src/types/task.ts) *)
(* and the token-stream assembler (handleToken and its predicates).        *)
(*                                                                         *)
(* A JavaScript string is modelled as a sequence of one-character strings, *)
(* so that concatenation, indexing and formatting are computed and not     *)
(* assumed.  A JavaScript value is a tagged record.  A plain object is the *)
(* sequence of its own properties in insertion order; property lookup      *)
(* falls back to Object.prototype as the language defines.                 *)
(***************************************************************************)
EXTENDS Integers, Sequences, FiniteSets, TLC

VARIABLES goal, controller, objectives, finished,
          given, declared, before, call, ret, calls,
          start, stream, partialResponse, text

taskVars == <<goal, controller, objectives, finished, given, declared, before, call, ret, calls>>
asmVars == <<start, stream, partialResponse, text>>
vars == <<goal, controller, objectives, finished, given, declared, before, call, ret, calls,
          start, stream, partialResponse, text>>

----------------------------------------------------------------------------
(* Bounds *)

MaxObjectives == 3
MaxCalls == 2
MaxStream == 3

----------------------------------------------------------------------------
(* JavaScript values *)

Null == [type |-> "null"]
Undefined == [type |-> "undefined"]
Str(s) == [type |-> "string", str |-> s]
\* what a lookup finds on Object.prototype: a function or an accessor result,
\* some value that is neither undefined nor null nor a string
Inherited == [type |-> "object"]

EmptyString == <<>>

RECURSIVE Join(_, _)
\* Array.prototype.join on an array of strings
Join(arr, sep) ==
  IF Len(arr) = 0 THEN <<>>
  ELSE IF Len(arr) = 1 THEN arr[1]
  ELSE arr[1] \o sep \o Join(Tail(arr), sep)

----------------------------------------------------------------------------
(* Names used as objective keys and as arguments *)

NameA == <<"a">>
NameB == <<"b">>
NameC == <<"c">>
Name2 == <<"2">>
NameX == <<"x">>
NameY == <<"y">>
AdditionalPrefix == <<"a", "d", "d", "i", "t", "i", "o", "n", "a", "l", "_">>
NameAdditionalX == AdditionalPrefix \o NameX
NameToString == <<"t", "o", "S", "t", "r", "i", "n", "g">>
NameProto == <<"_", "_", "p", "r", "o", "t", "o", "_", "_">>

\* the properties every plain object inherits (two representatives of
\* Object.prototype: a data property and the __proto__ accessor)
ObjectPrototypeKeys == {NameToString, NameProto}

\* names an objective map is constructed with
DeclaredNames == {NameA, NameC, Name2, NameAdditionalX}
\* names passed to updateObjective: declared ones, one never declared, inherited ones
UpdateNames == {NameA, Name2, NameAdditionalX, NameB, NameToString, NameProto}
\* names passed to addAdditionalObjective
AdditionalNames == {NameX, NameY}
\* values passed to updateObjective
ValueStrings == {EmptyString, <<"v">>}
\* a value with the characters JSON has to escape: a quote, a backslash, a newline
EscapedValue == <<"\"", "\\", "\n">>
\* values passed to addAdditionalObjective
AdditionalValues == {<<"v">>, EscapedValue}
\* values an objective is constructed with
InitialValues == {Null, Str(<<"v">>)}
Goals == {<<"g">>}
Controllers == {<<"c", ".", "t", "s">>}

----------------------------------------------------------------------------
(* Plain objects: own properties in insertion order *)

HasOwn(o, k) == \E i \in 1..Len(o) : o[i].key = k

OwnIndex(o, k) == CHOOSE i \in 1..Len(o) : o[i].key = k

\* o[k]
Get(o, k) ==
  IF HasOwn(o, k) THEN o[OwnIndex(o, k)].value
  ELSE IF k \in ObjectPrototypeKeys THEN Inherited
  ELSE Undefined

\* o[k] = v for a primitive v
Set(o, k, v) ==
  IF HasOwn(o, k)
    THEN [o EXCEPT ![OwnIndex(o, k)] = [key |-> k, value |-> v]]
  ELSE IF k = NameProto
    THEN o   \* the inherited __proto__ setter ignores a value that is not an object
  ELSE Append(o, [key |-> k, value |-> v])

DigitChars == {"0", "1", "2", "3", "4", "5", "6", "7", "8", "9"}

DigitVal(c) ==
  CASE c = "0" -> 0 [] c = "1" -> 1 [] c = "2" -> 2 [] c = "3" -> 3 [] c = "4" -> 4
    [] c = "5" -> 5 [] c = "6" -> 6 [] c = "7" -> 7 [] c = "8" -> 8 [] c = "9" -> 9

RECURSIVE DigitsVal(_)
DigitsVal(s) ==
  IF Len(s) = 0 THEN 0
  ELSE DigitsVal(SubSeq(s, 1, Len(s) - 1)) * 10 + DigitVal(s[Len(s)])

\* a canonical array index: these keys are enumerated first, in numeric order
IsArrayIndex(k) ==
  /\ Len(k) > 0
  /\ Len(k) <= 9
  /\ \A i \in 1..Len(k) : k[i] \in DigitChars
  /\ (Len(k) > 1 => k[1] # "0")

RECURSIVE SortedIndexKeys(_)
SortedIndexKeys(S) ==
  IF S = {} THEN <<>>
  ELSE LET m == CHOOSE k \in S : \A j \in S : DigitsVal(k) <= DigitsVal(j)
       IN <<m>> \o SortedIndexKeys(S \ {m})

RECURSIVE OtherKeys_reversed(_)
\* the string keys collected newest first
OtherKeys_reversed(o) ==
  IF Len(o) = 0 THEN <<>>
  ELSE IF IsArrayIndex(o[1].key) THEN OtherKeys_reversed(Tail(o))
  ELSE OtherKeys_reversed(Tail(o)) \o <<o[1].key>>

RECURSIVE OtherKeys(_)
OtherKeys(o) ==
  IF Len(o) = 0 THEN <<>>
  ELSE IF IsArrayIndex(o[1].key) THEN OtherKeys(Tail(o))
  ELSE <<o[1].key>> \o OtherKeys(Tail(o))

\* Object.keys(o): integer keys ascending, then string keys in insertion order
ObjectKeys(o) ==
  SortedIndexKeys({o[i].key : i \in {j \in 1..Len(o) : IsArrayIndex(o[j].key)}})
    \o OtherKeys(o)

----------------------------------------------------------------------------
(* Task operations *)

\* updateObjective storing an empty value as "not collected"
updateObjective_emptyAsNull(o, objective, value) ==
  IF Get(o, objective) = Undefined
    THEN [threw |-> TRUE, objectives |-> o]
    ELSE [threw |-> FALSE,
          objectives |-> Set(o, objective, IF value = EmptyString THEN Null ELSE Str(value))]

\* updateObjective: [threw, objectives]
updateObjective(o, objective, value) ==
  IF Get(o, objective) = Undefined
    THEN [threw |-> TRUE, objectives |-> o]
    ELSE [threw |-> FALSE, objectives |-> Set(o, objective, Str(value))]

\* addAdditionalObjective replacing the map by one holding only the new key
addAdditionalObjective_replace(o, objective, value) ==
  [threw |-> FALSE,
   objectives |-> <<[key |-> AdditionalPrefix \o objective, value |-> Str(value)]>>]

addAdditionalObjective(o, objective, value) ==
  [threw |-> FALSE, objectives |-> Set(o, AdditionalPrefix \o objective, Str(value))]

RECURSIVE FilterNull_falsy(_, _)
\* the filter written as !objectives[key]: an empty string counts as missing
FilterNull_falsy(o, keys) ==
  IF Len(keys) = 0 THEN <<>>
  ELSE IF Get(o, keys[1]) = Null \/ Get(o, keys[1]) = Str(EmptyString)
    THEN <<keys[1]>> \o FilterNull_falsy(o, Tail(keys))
  ELSE FilterNull_falsy(o, Tail(keys))

RECURSIVE FilterNull(_, _)
\* Object.keys(...).filter(key => objectives[key] === null)
FilterNull(o, keys) ==
  IF Len(keys) = 0 THEN <<>>
  ELSE IF Get(o, keys[1]) = Null THEN <<keys[1]>> \o FilterNull(o, Tail(keys))
  ELSE FilterNull(o, Tail(keys))

getRequiredObjectives(o) ==
  LET requiredObjectives == FilterNull(o, ObjectKeys(o))
  IN IF Len(requiredObjectives) = 0
       THEN Undefined
       ELSE Str(<<"-", " ">> \o Join(requiredObjectives, <<"\n", "-", " ">>))

getObjectivesObject(o) == o

RECURSIVE QuoteBody_raw(_)
\* a string written between quotes with nothing escaped
QuoteBody_raw(s) ==
  IF Len(s) = 0 THEN <<>> ELSE <<s[1]>> \o QuoteBody_raw(Tail(s))

\* JSON.stringify of a string
RECURSIVE QuoteBody(_)
QuoteBody(s) ==
  IF Len(s) = 0 THEN <<>>
  ELSE (CASE s[1] = "\"" -> <<"\\", "\"">>
          [] s[1] = "\\" -> <<"\\", "\\">>
          [] s[1] = "\n" -> <<"\\", "n">>
          [] s[1] = "\t" -> <<"\\", "t">>
          [] OTHER -> <<s[1]>>) \o QuoteBody(Tail(s))

Quote(s) == <<"\"">> \o QuoteBody(s) \o <<"\"">>

JSONValue(v) ==
  IF v = Null THEN <<"n", "u", "l", "l">> ELSE Quote(v.str)

RECURSIVE JSONMembers_skipNull(_, _)
\* members written only for the objectives that have a value
JSONMembers_skipNull(o, keys) ==
  IF Len(keys) = 0 THEN <<>>
  ELSE IF Get(o, keys[1]) = Null THEN JSONMembers_skipNull(o, Tail(keys))
  ELSE <<Quote(keys[1]) \o <<":">> \o JSONValue(Get(o, keys[1]))>>
         \o JSONMembers_skipNull(o, Tail(keys))

RECURSIVE JSONMembers(_, _)
JSONMembers(o, keys) ==
  IF Len(keys) = 0 THEN <<>>
  ELSE <<Quote(keys[1]) \o <<":">> \o JSONValue(Get(o, keys[1]))>>
         \o JSONMembers(o, Tail(keys))

\* JSON.stringify of an objective map
JSONstringify(o) == <<"{">> \o Join(JSONMembers(o, ObjectKeys(o)), <<",">>) \o <<"}">>

\* toJSON with the goal written into the controller field
toJSON_goalAsController(g, c, o, f) ==
  [goal |-> g, controller |-> g, objectives |-> Str(JSONstringify(o)), finished |-> f]

toJSON(g, c, o, f) ==
  [goal |-> g, controller |-> c, objectives |-> Str(JSONstringify(o)), finished |-> f]

----------------------------------------------------------------------------
(* Messages built from the Task *)

\* generateCheckForDataMessage for a petal that has (hasTask) or has not a
\* current task o.  The test on the list only logs, so the prompt is formatted
\* with whatever the list is.  The template is an external collaborator: given
\* an absent list its format either resolves (a message is returned) or rejects.
generateCheckForDataMessage(hasTask, o, resolves) ==
  LET objs == IF hasTask THEN getRequiredObjectives(o) ELSE Undefined
      done == (objs # Undefined) \/ resolves
  IN [currentTask |-> hasTask, formatted |-> TRUE, list |-> objs,
      message |-> done, threw |-> ~done]

----------------------------------------------------------------------------
(* Reading a serialized Task back *)

\* a property defined on an object that is being built (no setter is involved)
DefineOwn(o, k, v) ==
  IF HasOwn(o, k)
    THEN [o EXCEPT ![OwnIndex(o, k)] = [key |-> k, value |-> v]]
    ELSE Append(o, [key |-> k, value |-> v])

RECURSIVE ScanString(_, _, _)
\* the JSON string whose opening quote is just before position i
ScanString(s, i, acc) ==
  IF i > Len(s) THEN [ok |-> FALSE, str |-> acc, next |-> i]
  ELSE IF s[i] = "\"" THEN [ok |-> TRUE, str |-> acc, next |-> i + 1]
  ELSE IF s[i] = "\\" THEN
    IF i + 1 > Len(s) THEN [ok |-> FALSE, str |-> acc, next |-> i]
    ELSE IF s[i + 1] \in {"\"", "\\", "/"} THEN ScanString(s, i + 2, Append(acc, s[i + 1]))
    ELSE IF s[i + 1] = "n" THEN ScanString(s, i + 2, Append(acc, "\n"))
    ELSE IF s[i + 1] = "t" THEN ScanString(s, i + 2, Append(acc, "\t"))
    ELSE [ok |-> FALSE, str |-> acc, next |-> i]
  ELSE IF s[i] \in {"\n", "\t"} THEN [ok |-> FALSE, str |-> acc, next |-> i]
  ELSE ScanString(s, i + 1, Append(acc, s[i]))

\* a member value: a string or null (the values an objective map holds)
ParseValueAt(s, i) ==
  IF i > Len(s) THEN [ok |-> FALSE, value |-> Undefined, next |-> i]
  ELSE IF s[i] = "\"" THEN
    LET r == ScanString(s, i + 1, <<>>)
    IN [ok |-> r.ok, value |-> Str(r.str), next |-> r.next]
  ELSE IF i + 3 <= Len(s) /\ SubSeq(s, i, i + 3) = <<"n", "u", "l", "l">>
    THEN [ok |-> TRUE, value |-> Null, next |-> i + 4]
  ELSE [ok |-> FALSE, value |-> Undefined, next |-> i]

RECURSIVE ParseMembers(_, _, _)
\* the members from position i, which holds the opening quote of a key
ParseMembers(s, i, acc) ==
  IF i > Len(s) \/ s[i] # "\"" THEN [ok |-> FALSE, object |-> acc]
  ELSE LET k == ScanString(s, i + 1, <<>>)
       IN IF ~k.ok \/ k.next > Len(s) \/ s[k.next] # ":" THEN [ok |-> FALSE, object |-> acc]
          ELSE LET v == ParseValueAt(s, k.next + 1)
               IN IF ~v.ok \/ v.next > Len(s) THEN [ok |-> FALSE, object |-> acc]
                  ELSE IF s[v.next] = ","
                    THEN ParseMembers(s, v.next + 1, DefineOwn(acc, k.str, v.value))
                  ELSE IF s[v.next] = "}" /\ v.next = Len(s)
                    THEN [ok |-> TRUE, object |-> DefineOwn(acc, k.str, v.value)]
                  ELSE [ok |-> FALSE, object |-> acc]

\* JSON.parse of the text of an objective map, as JSON.stringify writes it
\* (no white space between tokens); ok is FALSE where JSON.parse raises
JSONparse(s) ==
  IF Len(s) < 2 \/ s[1] # "{" THEN [ok |-> FALSE, object |-> <<>>]
  ELSE IF s = <<"{", "}">> THEN [ok |-> TRUE, object |-> <<>>]
  ELSE ParseMembers(s, 2, <<>>)

\* the Task reconstructed from the four fields of its serialized form
fromJSON(json) ==
  LET parsed == JSONparse(json.objectives.str)
  IN [ok |-> parsed.ok, goal |-> json.goal, controller |-> json.controller,
      objectives |-> parsed.object, finished |-> json.finished]

----------------------------------------------------------------------------
(* The Task state machine *)

NoCall == [op |-> "constructor", objective |-> EmptyString, value |-> EmptyString]
NoRet == [threw |-> FALSE, value |-> Undefined]

RECURSIVE DistinctKeys(_)
DistinctKeys(o) ==
  IF Len(o) = 0 THEN TRUE
  ELSE (~HasOwn(Tail(o), o[1].key)) /\ DistinctKeys(Tail(o))

Entries == [key : DeclaredNames, value : InitialValues]

ObjectiveMaps ==
  UNION {{o \in [1..n -> Entries] : DistinctKeys(o)} : n \in 0..MaxObjectives}

AsmIdle ==
  /\ start = EmptyString
  /\ stream = <<>>
  /\ partialResponse = EmptyString
  /\ text = EmptyString

TaskInit ==
  /\ goal \in Goals
  /\ controller \in Controllers
  /\ objectives \in ObjectiveMaps
  /\ finished = FALSE
  /\ given = [goal |-> goal, controller |-> controller]
  /\ declared = objectives
  /\ before = objectives
  /\ call = NoCall
  /\ ret = NoRet
  /\ calls = 0

Init == TaskInit /\ AsmIdle

UpdateObjective ==
  /\ calls < MaxCalls
  /\ \E objective \in UpdateNames, value \in ValueStrings :
       LET r == updateObjective(objectives, objective, value)
       IN /\ objectives' = r.objectives
          /\ before' = objectives
          /\ call' = [op |-> "updateObjective", objective |-> objective, value |-> value]
          /\ ret' = [threw |-> r.threw, value |-> Undefined]
  /\ calls' = calls + 1
  /\ UNCHANGED <<goal, controller, finished, given, declared>>
  /\ UNCHANGED asmVars

AddAdditionalObjective ==
  /\ calls < MaxCalls
  /\ \E objective \in AdditionalNames, value \in AdditionalValues :
       LET r == addAdditionalObjective(objectives, objective, value)
       IN /\ objectives' = r.objectives
          /\ before' = objectives
          /\ call' = [op |-> "addAdditionalObjective", objective |-> objective, value |-> value]
          /\ ret' = [threw |-> r.threw, value |-> Undefined]
  /\ calls' = calls + 1
  /\ UNCHANGED <<goal, controller, finished, given, declared>>
  /\ UNCHANGED asmVars

Read(op, value) ==
  /\ calls < MaxCalls
  /\ before' = objectives
  /\ call' = [op |-> op, objective |-> EmptyString, value |-> EmptyString]
  /\ ret' = [threw |-> FALSE, value |-> value]
  /\ calls' = calls + 1
  /\ UNCHANGED <<goal, controller, objectives, finished, given, declared>>
  /\ UNCHANGED asmVars

GetRequiredObjectives == Read("getRequiredObjectives", getRequiredObjectives(objectives))

GetObjectivesObject == Read("getObjectivesObject", getObjectivesObject(objectives))

GetGoal == Read("getGoal", Str(goal))

IsFinished == Read("isFinished", finished)

ToJSON == Read("toJSON", toJSON(goal, controller, objectives, finished))

GenerateCheckForDataMessage ==
  /\ calls < MaxCalls
  /\ \E hasTask \in BOOLEAN, resolves \in BOOLEAN :
       LET r == generateCheckForDataMessage(hasTask, objectives, resolves)
       IN /\ call' = [op |-> "generateCheckForDataMessage",
                      objective |-> EmptyString, value |-> EmptyString]
          /\ ret' = [threw |-> r.threw, value |-> r]
  /\ before' = objectives
  /\ calls' = calls + 1
  /\ UNCHANGED <<goal, controller, objectives, finished, given, declared>>
  /\ UNCHANGED asmVars

Next ==
  \/ UpdateObjective
  \/ AddAdditionalObjective
  \/ GetRequiredObjectives
  \/ GetObjectivesObject
  \/ GetGoal
  \/ IsFinished
  \/ ToJSON
  \/ GenerateCheckForDataMessage

Spec == Init /\ [][Next]_vars

----------------------------------------------------------------------------
(* Token classification *)

\* isPunctuation without the comma
isPunctuation_noComma(token) ==
  token = <<".">> \/ token = <<"!">> \/ token = <<"?">>

isPunctuation(token) ==
  token = <<".">> \/ token = <<"!">> \/ token = <<"?">> \/ token = <<",">>

\* A Number: not-a-number, or (-1)^neg * num / 10^scale
NaN == [nan |-> TRUE, neg |-> FALSE, num |-> 0, scale |-> 0]
Num(neg, num, scale) == [nan |-> FALSE, neg |-> neg, num |-> num, scale |-> scale]

WhiteSpace == {" ", "\n", "\t"}

RECURSIVE TrimStart(_)
TrimStart(s) ==
  IF Len(s) > 0 /\ s[1] \in WhiteSpace THEN TrimStart(Tail(s)) ELSE s

RECURSIVE TrimEnd(_)
TrimEnd(s) ==
  IF Len(s) > 0 /\ s[Len(s)] \in WhiteSpace THEN TrimEnd(SubSeq(s, 1, Len(s) - 1)) ELSE s

AllDigits(s) == \A i \in 1..Len(s) : s[i] \in DigitChars

\* digits [ . digits ]  |  . digits      (the decimal literal without exponent)
UnsignedDecimal(s, neg) ==
  LET dots == {i \in 1..Len(s) : s[i] = "."}
  IN IF dots = {}
       THEN IF Len(s) > 0 /\ AllDigits(s) THEN Num(neg, DigitsVal(s), 0) ELSE NaN
     ELSE IF Cardinality(dots) > 1 THEN NaN
     ELSE LET d == CHOOSE i \in dots : TRUE
              ip == SubSeq(s, 1, d - 1)
              fp == SubSeq(s, d + 1, Len(s))
          IN IF AllDigits(ip) /\ AllDigits(fp) /\ Len(ip) + Len(fp) > 0
               THEN Num(neg, DigitsVal(ip \o fp), Len(fp))
               ELSE NaN

\* Number(string): white space is trimmed, the empty string is 0, then a signed
\* decimal literal.  The characters of the modelled tokens (Chars) cannot spell
\* an exponent, a radix prefix or Infinity, so those productions are not needed.
StringToNumber(s) ==
  LET t == TrimEnd(TrimStart(s))
  IN IF Len(t) = 0 THEN Num(FALSE, 0, 0)
     ELSE IF t[1] = "-" THEN UnsignedDecimal(Tail(t), TRUE)
     ELSE IF t[1] = "+" THEN UnsignedDecimal(Tail(t), FALSE)
     ELSE UnsignedDecimal(t, FALSE)

\* Number(v) for a string or undefined
ToNumber(v) == IF v = Undefined THEN NaN ELSE StringToNumber(v.str)

RECURSIVE Pow10(_)
Pow10(n) == IF n = 0 THEN 1 ELSE 10 * Pow10(n - 1)

\* x < c and x >= c for a Number x and a natural c; every comparison with NaN is false
LessThan(x, c) ==
  /\ ~x.nan
  /\ IF x.neg THEN (x.num > 0 \/ 0 < c) ELSE x.num < c * Pow10(x.scale)

AtLeast(x, c) ==
  /\ ~x.nan
  /\ IF x.neg THEN (x.num = 0 /\ c = 0) ELSE x.num >= c * Pow10(x.scale)

\* isPositiveIntLessThan1000 without its first line
isPositiveIntLessThan1000_noExclusions(token) ==
  LessThan(ToNumber(token), 1000) /\ AtLeast(ToNumber(token), 0)

\* token is a string, or undefined (the last character of the empty text)
isPositiveIntLessThan1000(token) ==
  IF token = Str(EmptyString) \/ token = Str(<<" ">>) \/ token = Str(<<"\n">>)
    THEN FALSE
    ELSE LessThan(ToNumber(token), 1000) /\ AtLeast(ToNumber(token), 0)

\* text[text.length - 1]
LastChar(t) == IF Len(t) = 0 THEN Undefined ELSE Str(<<t[Len(t)]>>)

\* handleToken without the digit-grouping branch
handleToken_noGrouping(pr, token) ==
  IF token = <<"\n">> THEN pr \o <<"\n">>
  ELSE IF isPunctuation(token) THEN pr \o token
  ELSE IF token = EmptyString THEN pr
  ELSE pr \o <<" ">> \o token

\* handleToken without the end-of-response branch
handleToken_noEnd(pr, token) ==
  LET lastChar == LastChar(pr)
  IN IF token = <<"\n">> THEN pr \o <<"\n">>
     ELSE IF isPunctuation(token) THEN pr \o token
     ELSE IF isPositiveIntLessThan1000(Str(token))
             /\ (isPositiveIntLessThan1000(lastChar) \/ lastChar = Str(<<",">>))
       THEN pr \o token
     ELSE pr \o <<" ">> \o token

\* handleToken that puts no space before the first token of a response
handleToken_noLeadingSpace(pr, token) ==
  LET lastChar == LastChar(pr)
  IN IF token = <<"\n">> THEN pr \o <<"\n">>
     ELSE IF isPunctuation(token) THEN pr \o token
     ELSE IF isPositiveIntLessThan1000(Str(token))
             /\ (isPositiveIntLessThan1000(lastChar) \/ lastChar = Str(<<",">>))
       THEN pr \o token
     ELSE IF token = EmptyString THEN pr
     ELSE IF Len(pr) = 0 THEN token
     ELSE pr \o <<" ">> \o token

\* handleToken that trims the text before it appends a normal token
handleToken_trimEnd(pr, token) ==
  LET lastChar == LastChar(pr)
  IN IF token = <<"\n">> THEN pr \o <<"\n">>
     ELSE IF isPunctuation(token) THEN pr \o token
     ELSE IF isPositiveIntLessThan1000(Str(token))
             /\ (isPositiveIntLessThan1000(lastChar) \/ lastChar = Str(<<",">>))
       THEN pr \o token
     ELSE IF token = EmptyString THEN pr
     ELSE TrimEnd(pr) \o <<" ">> \o token

\* handleToken whose grouping test forgets the comma
handleToken_noCommaGrouping(pr, token) ==
  LET lastChar == LastChar(pr)
  IN IF token = <<"\n">> THEN pr \o <<"\n">>
     ELSE IF isPunctuation(token) THEN pr \o token
     ELSE IF isPositiveIntLessThan1000(Str(token)) /\ isPositiveIntLessThan1000(lastChar)
       THEN pr \o token
     ELSE IF token = EmptyString THEN pr
     ELSE pr \o <<" ">> \o token

handleToken(pr, token) ==
  LET lastChar == LastChar(pr)
  IN IF token = <<"\n">> THEN pr \o <<"\n">>
     ELSE IF isPunctuation(token) THEN pr \o token
     ELSE IF isPositiveIntLessThan1000(Str(token))
             /\ (isPositiveIntLessThan1000(lastChar) \/ lastChar = Str(<<",">>))
       THEN pr \o token
     ELSE IF token = EmptyString THEN pr
     ELSE pr \o <<" ">> \o token

\* tokens of the model response stream
Tokens ==
  { EmptyString, <<"\n">>, <<".">>, <<"!">>, <<"?">>, <<",">>, <<" ">>,
    <<"9", "9", "9">>, <<"1">>, <<"0">>, <<"0", "0", "0">>, <<"1", "0", "0", "0">>,
    <<"1", ".">>, <<"1", ".", "5">>, <<"-", "1">>, <<"5", " ">>, <<" ", " ">>,
    <<"h", "i">> }

\* accumulated texts a stream starts from
InitTexts == { EmptyString, <<"a">>, <<"9">>, <<"a", ",">>, <<"a", " ">>, <<"a", "\n">> }

----------------------------------------------------------------------------
(* The assembler driven by a token stream *)

TaskIdle ==
  /\ goal = <<"g">>
  /\ controller = <<"c", ".", "t", "s">>
  /\ objectives = <<>>
  /\ finished = FALSE
  /\ given = [goal |-> goal, controller |-> controller]
  /\ declared = <<>>
  /\ before = <<>>
  /\ call = NoCall
  /\ ret = NoRet
  /\ calls = 0

AsmInit ==
  /\ start \in InitTexts
  /\ stream = <<>>
  /\ partialResponse = start
  /\ text = start

InitAssembler == TaskIdle /\ AsmInit

HandleToken ==
  /\ Len(stream) < MaxStream
  /\ \E token \in Tokens :
       /\ partialResponse' = text
       /\ text' = handleToken(text, token)
       /\ stream' = Append(stream, token)
  /\ UNCHANGED start
  /\ UNCHANGED taskVars

NextAssembler == HandleToken

SpecAssembler == InitAssembler /\ [][NextAssembler]_vars

----------------------------------------------------------------------------
(* Properties of the Task *)

\* the own keys of o whose value is null
NullKeys(o) == {o[i].key : i \in {j \in 1..Len(o) : o[j].value = Null}}

Range(q) == {q[i] : i \in 1..Len(q)}

RECURSIVE SplitLines(_)
\* the lines of a text, split at every newline
SplitLines(s) ==
  LET nl == {i \in 1..Len(s) : s[i] = "\n"}
  IN IF nl = {} THEN <<s>>
     ELSE LET i == CHOOSE j \in nl : \A m \in nl : j <= m
          IN <<SubSeq(s, 1, i - 1)>> \o SplitLines(SubSeq(s, i + 1, Len(s)))

RequiredLine(k) == <<"-", " ">> \o k

C2_UnknownKeyRejected ==
  (call.op = "updateObjective" /\ ~HasOwn(before, call.objective))
    => (ret.threw /\ objectives = before)

\* C3: a key whose value is non-null stays non-null over every call, and the
\* keys listed by getRequiredObjectives never gain a member.
C3_ObjectiveMonotonic ==
  /\ \A i \in 1..Len(before) :
       before[i].value # Null =>
         (HasOwn(objectives, before[i].key) /\ Get(objectives, before[i].key) # Null)
  /\ Range(FilterNull(objectives, ObjectKeys(objectives)))
       \subseteq Range(FilterNull(before, ObjectKeys(before)))

\* a collected objective is overwritten (with the empty string) and stays collected
C3_Witness ==
  /\ call.op = "updateObjective"
  /\ ~ret.threw
  /\ HasOwn(before, call.objective)
  /\ Get(before, call.objective) = Str(<<"v">>)
  /\ Get(objectives, call.objective) = Str(EmptyString)

\* C4: addAdditionalObjective never raises, leaves additional_<name> holding the
\* given value, and every objective given at construction keeps its value.
C4_AdditionalObjectiveFrame ==
  call.op = "addAdditionalObjective" =>
    /\ ~ret.threw
    /\ Get(objectives, AdditionalPrefix \o call.objective) = Str(call.value)
    /\ \A i \in 1..Len(declared) :
         Get(objectives, declared[i].key) = Get(before, declared[i].key)

\* C5: a call after which some key has gone from null to a string is an
\* updateObjective call naming that key.
C5_CollectedOnlyByUpdate ==
  \A i \in 1..Len(before) :
    (before[i].value = Null /\ Get(objectives, before[i].key).type = "string")
      => (call.op = "updateObjective" /\ call.objective = before[i].key)

\* C6: every key given at construction is still a key, and no call removes a key.
C6_DeclaredKeysRemain ==
  /\ \A i \in 1..Len(declared) : HasOwn(objectives, declared[i].key)
  /\ \A i \in 1..Len(before) : HasOwn(objectives, before[i].key)

\* an additional key was added and then an update failed with the invalid-key error
C6_Witness ==
  /\ call.op = "updateObjective"
  /\ ret.threw
  /\ Len(declared) > 0
  /\ Len(objectives) > Len(declared)

----------------------------------------------------------------------------
(* Properties of the assembler *)

Token == stream[Len(stream)]

Digits999 == <<"9", "9", "9">>

\* C7: two small non-negative integer tokens assembled from the empty text give
\* their plain concatenation a + b.
C7_NumericRegrouping ==
  (/\ start = EmptyString
   /\ Len(stream) = 2
   /\ isPositiveIntLessThan1000(Str(stream[1]))
   /\ isPositiveIntLessThan1000(Str(stream[2])))
    => text = stream[1] \o stream[2]

\* C7 (amended): two small non-negative integer tokens, the first ending in a
\* decimal digit, assembled from the empty text give a single space followed by
\* their concatenation with no separator between them.
C7_NumericRegroupingLeadingSpace ==
  (/\ start = EmptyString
   /\ Len(stream) = 2
   /\ isPositiveIntLessThan1000(Str(stream[1]))
   /\ isPositiveIntLessThan1000(Str(stream[2]))
   /\ stream[1][Len(stream[1])] \in DigitChars)
    => text = <<" ">> \o stream[1] \o stream[2]

\* "999" then "999" from the empty text
C7_Witness ==
  /\ start = EmptyString
  /\ stream = <<Digits999, Digits999>>
  /\ text = <<" ">> \o Digits999 \o Digits999

\* C8: a newline or one of . ! ? , is appended to any text with no inserted space.
C8_PunctuationJoins ==
  (Len(stream) > 0 /\ Token \in {<<"\n">>, <<".">>, <<"!">>, <<"?">>, <<",">>})
    => text = partialResponse \o Token

\* a comma appended to a text that ends in a digit
C8_Witness ==
  /\ Len(stream) > 0
  /\ Token = <<",">>
  /\ Len(partialResponse) > 0
  /\ partialResponse[Len(partialResponse)] \in DigitChars
  /\ text = partialResponse \o <<",">>

\* C9: the empty token leaves every text unchanged.
C9_EndSentinelNoOp ==
  (Len(stream) > 0 /\ Token = EmptyString) => text = partialResponse

\* the empty token after a text that ends in a digit
C9_Witness ==
  /\ Len(stream) > 0
  /\ Token = EmptyString
  /\ Len(partialResponse) > 0
  /\ partialResponse[Len(partialResponse)] \in DigitChars
  /\ text = partialResponse

\* the token qualifies as a digit-grouping continuation of the text t
Continuation(t, w) ==
  /\ isPositiveIntLessThan1000(Str(w))
  /\ (isPositiveIntLessThan1000(LastChar(t)) \/ LastChar(t) = Str(<<",">>))

\* C10: a token that is not a newline, not punctuation, not empty and not a
\* digit-grouping continuation is appended after a single space, to every text
\* including the empty one.
C10_DefaultSpacing ==
  (/\ Len(stream) > 0
   /\ Token \notin {<<"\n">>, <<".">>, <<"!">>, <<"?">>, <<",">>, EmptyString}
   /\ ~Continuation(partialResponse, Token))
    => text = partialResponse \o <<" ">> \o Token

\* a number token appended to the empty text, which has no last character
C10_Witness ==
  /\ Len(stream) > 0
  /\ partialResponse = EmptyString
  /\ Token = Digits999
  /\ text = <<" ">> \o Digits999

\* C11: a small non-negative integer token is appended with no space when the
\* last character of the text is a small non-negative integer or a comma; only
\* that one character matters, and newline and punctuation are decided first.
\* "1", ",", "000" after a text ending in a letter append " 1,000".
C11_DigitGrouping ==
  /\ (/\ Len(stream) > 0
      /\ isPositiveIntLessThan1000(Str(Token))
      /\ Len(partialResponse) > 0
      /\ (\/ isPositiveIntLessThan1000(Str(<<partialResponse[Len(partialResponse)]>>))
          \/ partialResponse[Len(partialResponse)] = ","))
       => text = partialResponse \o Token
  /\ (/\ Len(start) > 0
      /\ start[Len(start)] = "a"
      /\ stream = <<<<"1">>, <<",">>, <<"0", "0", "0">>>>)
       => text = start \o <<" ", "1", ",", "0", "0", "0">>

\* "000" joined to a text that ends in the comma of "a 1,"
C11_Witness ==
  /\ start = <<"a">>
  /\ stream = <<<<"1">>, <<",">>, <<"0", "0", "0">>>>
  /\ partialResponse = <<"a", " ", "1", ",">>
  /\ text = <<"a", " ", "1", ",", "0", "0", "0">>

----------------------------------------------------------------------------
(* Serialization *)

\* the same keys with the same values, enumerated in the same order
SameContents(o1, o2) ==
  /\ {<<o1[i].key, o1[i].value>> : i \in 1..Len(o1)}
       = {<<o2[i].key, o2[i].value>> : i \in 1..Len(o2)}
  /\ ObjectKeys(o1) = ObjectKeys(o2)

RoundTrips(json) ==
  LET t == fromJSON(json)
  IN /\ t.ok
     /\ t.goal = goal
     /\ t.controller = controller
     /\ SameContents(t.objectives, objectives)
     /\ t.finished = finished

\* C12: in every reachable state, serializing the Task with toJSON and reading
\* the result back gives the same goal, controller, objective map (same keys,
\* same values, null kept as null) and finished value.
C12_SerializationRoundTrip ==
  /\ RoundTrips(toJSON(goal, controller, objectives, finished))
  /\ call.op = "toJSON" => RoundTrips(ret.value)

\* a serialized map with a missing objective and a value that needs escaping
C12_Witness ==
  /\ call.op = "toJSON"
  /\ NullKeys(objectives) # {}
  /\ \E i \in 1..Len(objectives) : objectives[i].value = Str(EscapedValue)
  /\ fromJSON(ret.value).ok

\* C13: after any sequence of calls getGoal returns the goal given at
\* construction, the serialized controller is the controller given at
\* construction, and isFinished is false.
C13_GoalControllerFinishedFixed ==
  /\ goal = given.goal
  /\ controller = given.controller
  /\ finished = FALSE
  /\ call.op = "getGoal" => ret.value = Str(given.goal)
  /\ call.op = "isFinished" => ret.value = FALSE
  /\ call.op = "toJSON" =>
       (/\ ret.value.goal = given.goal
        /\ ret.value.controller = given.controller
        /\ ret.value.finished = FALSE)

\* the Task is serialized after a call that changed its objective map
C13_Witness ==
  /\ call.op = "toJSON"
  /\ calls > 1
  /\ objectives # declared
  /\ ret.value.controller = given.controller

----------------------------------------------------------------------------
(* Order of the required list *)

RECURSIVE DeclaredMissing(_)
\* the names of d, in declaration order, whose current value is null
DeclaredMissing(d) ==
  IF Len(d) = 0 THEN <<>>
  ELSE IF Get(objectives, d[1].key) = Null
    THEN <<d[1].key>> \o DeclaredMissing(Tail(d))
  ELSE DeclaredMissing(Tail(d))

RECURSIVE NotIntegerLike(_)
\* the names of a list that are not integer-like, in the order of the list
NotIntegerLike(q) ==
  IF Len(q) = 0 THEN <<>>
  ELSE IF IsArrayIndex(q[1]) THEN NotIntegerLike(Tail(q))
  ELSE <<q[1]>> \o NotIntegerLike(Tail(q))

\* the names on the lines of a required list
ListedNames(r) ==
  LET lines == SplitLines(r.str)
  IN [i \in 1..Len(lines) |-> SubSeq(lines[i], 3, Len(lines[i]))]

\* C14: the lines of getRequiredObjectives name the missing objectives in the
\* order they were declared at construction, whatever the names are, and no
\* objective added through addAdditionalObjective is listed.
C14_DeclarationOrder ==
  LET r == getRequiredObjectives(objectives)
  IN r # Undefined => ListedNames(r) = DeclaredMissing(declared)

\* C14 (amended): the listed names are exactly the missing declared ones;
\* integer-like names come before all others, and the others are in the order
\* they were declared, so with no integer-like name the list is in declaration
\* order.  No objective added through addAdditionalObjective is listed.
C14_IterationOrder ==
  LET r == getRequiredObjectives(objectives)
  IN r # Undefined =>
       LET listed == ListedNames(r)
       IN /\ Range(listed) = Range(DeclaredMissing(declared))
          /\ Len(listed) = Len(DeclaredMissing(declared))
          /\ NotIntegerLike(listed) = NotIntegerLike(DeclaredMissing(declared))
          /\ \A i, j \in 1..Len(listed) :
               (i < j /\ IsArrayIndex(listed[j])) => IsArrayIndex(listed[i])
          /\ ((\A i \in 1..Len(declared) : ~IsArrayIndex(declared[i].key))
                => listed = DeclaredMissing(declared))

\* c, 2 and a declared in that order and all missing: listed as 2, c, a
C14_Witness ==
  /\ call.op = "getRequiredObjectives"
  /\ Len(declared) = 3
  /\ declared[1].key = NameC
  /\ declared[2].key = Name2
  /\ declared[3].key = NameA
  /\ ret.value = Str(<<"-", " ", "2", "\n", "-", " ", "c", "\n", "-", " ", "a">>)

\* C16: toJSON returns an object with exactly the fields goal, controller,
\* objectives and finished; objectives is a string that encodes every key of the
\* current map with its value, the other three are the current values.
C16_ToJSONShape ==
  call.op = "toJSON" =>
    /\ DOMAIN ret.value = {"goal", "controller", "objectives", "finished"}
    /\ ret.value.objectives.type = "string"
    /\ JSONparse(ret.value.objectives.str).ok
    /\ SameContents(JSONparse(ret.value.objectives.str).object, objectives)
    /\ ret.value.goal = goal
    /\ ret.value.controller = controller
    /\ ret.value.finished = finished

\* a map with a missing objective and the key additional_y is serialized
C16_Witness ==
  /\ call.op = "toJSON"
  /\ HasOwn(objectives, AdditionalPrefix \o NameY)
  /\ NullKeys(objectives) # {}
  /\ ret.value.objectives.type = "string"

\* C18: after updateObjective(k, "") on a declared key k, getRequiredObjectives,
\* getObjectivesObject and toJSON give what they would give if k were null.
C18_EmptyLikeMissing ==
  (/\ call.op = "updateObjective"
   /\ ~ret.threw
   /\ call.value = EmptyString
   /\ HasOwn(declared, call.objective))
    => LET asNull == Set(objectives, call.objective, Null)
       IN /\ getRequiredObjectives(objectives) = getRequiredObjectives(asNull)
          /\ getObjectivesObject(objectives) = getObjectivesObject(asNull)
          /\ toJSON(goal, controller, objectives, finished)
               = toJSON(goal, controller, asNull, finished)

\* C18 (amended): after updateObjective(k, "") on a declared key k the key is
\* not listed by getRequiredObjectives, getObjectivesObject and toJSON show it
\* with the value "", and each result differs from the one for k being null.
C18_EmptyIsCollected ==
  (/\ call.op = "updateObjective"
   /\ ~ret.threw
   /\ call.value = EmptyString
   /\ HasOwn(declared, call.objective))
    => LET asNull == Set(objectives, call.objective, Null)
           r == getRequiredObjectives(objectives)
       IN /\ r # getRequiredObjectives(asNull)
          /\ r # Undefined => RequiredLine(call.objective) \notin Range(SplitLines(r.str))
          /\ Get(getObjectivesObject(objectives), call.objective) = Str(EmptyString)
          /\ toJSON(goal, controller, objectives, finished)
               # toJSON(goal, controller, asNull, finished)
          /\ Get(JSONparse(toJSON(goal, controller, objectives, finished).objectives.str).object,
                 call.objective) = Str(EmptyString)

\* the last missing objective is given the empty string: nothing is required any more
C18_Witness ==
  /\ call.op = "updateObjective"
  /\ ~ret.threw
  /\ call.value = EmptyString
  /\ HasOwn(declared, call.objective)
  /\ Get(before, call.objective) = Null
  /\ getRequiredObjectives(before) # Undefined
  /\ getRequiredObjectives(objectives) = Undefined

\* C19: generateCheckForDataMessage returns no message and does not format the
\* prompt when the petal has no current task or no objective is missing.
C19_NoMessageWithoutMissing ==
  (/\ call.op = "generateCheckForDataMessage"
   /\ (~ret.value.currentTask \/ getRequiredObjectives(objectives) = Undefined))
    => (~ret.value.message /\ ~ret.value.formatted)

----------------------------------------------------------------------------
(* Token classification and assembly over a stream *)

\* 0 <= x < 1000 for a parsed number
InRange(x) ==
  /\ ~x.nan
  /\ x.neg => x.num = 0
  /\ ~x.neg => x.num < 1000 * Pow10(x.scale)

SmallExpected(t) ==
  /\ t \notin {EmptyString, <<" ">>, <<"\n">>}
  /\ InRange(StringToNumber(t))

\* what Number() makes of the tokens: in [0, 1000), or not
KnownSmall ==
  { <<"9", "9", "9">>, <<"1">>, <<"0">>, <<"0", "0", "0">>, <<"1", ".">>,
    <<"1", ".", "5">>, <<"5", " ">>, <<" ", " ">> }

KnownNotSmall ==
  { EmptyString, <<" ">>, <<"\n">>, <<".">>, <<"!">>, <<"?">>, <<",">>,
    <<"1", "0", "0", "0">>, <<"-", "1">>, <<"h", "i">> }

RECURSIVE Assemble(_, _)
\* the text after folding a sequence of tokens into t
Assemble(t, toks) ==
  IF Len(toks) = 0 THEN t ELSE Assemble(handleToken(t, toks[1]), Tail(toks))

IsPrefix(p, t) == Len(p) <= Len(t) /\ SubSeq(t, 1, Len(p)) = p

\* C20: handleToken(T, t) is T followed by t or by a space and t, and by
\* nothing exactly when t is the empty token; so every text met while folding a
\* stream is a prefix of the text reached, in every state of the fold.
C20_AppendOnly ==
  /\ Len(stream) > 0 =>
       /\ IsPrefix(partialResponse, text)
       /\ SubSeq(text, Len(partialResponse) + 1, Len(text)) \in {Token, <<" ">> \o Token}
       /\ (Token = EmptyString) <=> (text = partialResponse)
  /\ Assemble(start, stream) = text
  /\ \A i \in 0..Len(stream) : IsPrefix(Assemble(start, SubSeq(stream, 1, i)), text)

\* a word, the end token and a full stop folded into "a"
C20_Witness ==
  /\ start = <<"a">>
  /\ stream = <<<<"h", "i">>, EmptyString, <<".">>>>
  /\ partialResponse = <<"a", " ", "h", "i">>
  /\ text = <<"a", " ", "h", "i", ".">>

====
